---- MODULE Spec2Model ----
(***************************************************************************)
(* Conversational RAG assistant: the chat route (GET/POST /chat and        *)
(* handleChatStream), the thread registry of lib/graph.ts                  *)
(* (createOrGetConversation, the hourly sweep) and the lazily initialised  *)
(* graph singleton.                                                        *)
(*                                                                         *)
(* GatewaySpec follows one request at a time through the route handler and *)
(* the detached streaming task; RegistrySpec exercises                     *)
(* createOrGetConversation directly; ConversationSpec runs the turns of a  *)
(* thread through the compiled graph (ycKnowledge, human) with the sweep   *)
(* beside them; ReconstructSpec applies loadMessages of the chat           *)
(* interface to the rows of a checkpoint query.                            *)
(***************************************************************************)
EXTENDS Integers, Sequences, FiniteSets, TLC

VARIABLES
    pc,             \* position of the request: handler / detached task
    req,            \* the request being handled
    nreq,           \* requests started so far
    startedAt,      \* Date.now() when the request arrived
    isStreamClosed, \* handleChatStream's local flag
    wstate,         \* the TransformStream: "open" | "closed" | "errored"
    handed,         \* stream.readable was returned to the client
    ops,            \* writer.write / writer.close calls, in call order
    items,          \* what the graph's iterator has yielded so far
    response,       \* what handleChatStream / the route returned
    caught,         \* the error handed to the catch block last entered
    escaped,        \* an exception left the detached task
    activeThreads,  \* lib/graph.ts: Map thread id -> Date.now()
    graph,          \* lib/graph.ts: the compiled graph (0 = null)
    memory,         \* lib/graph.ts: the checkpoint saver (0 = null)
    nWorkflows,     \* compiled workflows so far
    nSavers,        \* createSafePostgresSaver calls so far
    now,            \* the clock, in ms
    minted,         \* the ids uuidv4() has returned
    calls,          \* direct createOrGetConversation calls and their results
    lastResolved,   \* history: thread id -> the clock at its latest resolution
    store,          \* the checkpoint saver: thread id -> latest graph state
    turn,           \* the graph run of the request in progress
    nturns,         \* graph.stream calls so far
    seen,           \* history: one record per ycVectorNode run
    checkpoints,    \* chatInterface.tsx: the rows the checkpoint query returned
    messages,       \* chatInterface.tsx: the messages state
    sourceSteps,    \* history: the step of the checkpoint of each message
    loaded,         \* loadMessages has run: "no" | "yes" | "failed"
    summary,        \* chatInterface.tsx: the summary text given to parseSummary
    formatted,      \* chatInterface.tsx: what parseSummary returned
    projected,      \* parseSummary has run
    callers,        \* lib/graph.ts: each concurrent createOrGetConversation call
    isLoading,      \* chatInterface.tsx: the isLoading state
    streams         \* chatInterface.tsx: one record per handleSubmit call and its EventSource

vars == <<pc, req, nreq, startedAt, isStreamClosed, wstate, handed, ops, items,
          response, caught, escaped, activeThreads, graph, memory, nWorkflows,
          nSavers, now, minted, calls, lastResolved, store, turn, nturns,
          seen, checkpoints, messages, sourceSteps, loaded,
          summary, formatted, projected,
          callers,
          isLoading, streams>>

gatewayVars == <<pc, req, nreq, startedAt, isStreamClosed, wstate, handed, ops,
                 items, response, caught, escaped>>

graphVars == <<graph, memory, nWorkflows, nSavers>>

registryLog == <<calls, lastResolved>>

turnVars == <<store, turn, nturns, seen>>

loadVars == <<checkpoints, messages, sourceSteps, loaded>>

summaryVars == <<summary, formatted, projected>>

callerVars == <<callers>>

clientVars == <<isLoading, streams>>

----------------------------------------------------------------------------
(* Bounds *)

MaxRequests == 2
MaxItems == 3
MaxCalls == 4
MaxClockSteps == 2
MaxTurns == 2
MaxCheckpoints == 3
MaxCallers == 2
MaxFragments == 2
MaxPieces == 5
ClockStepMs == 86400000
TickMs == 400000

(* Program constants *)

maxDuration == 300

----------------------------------------------------------------------------
(* Values *)

Missing == "<undefined>"

Messages == {Missing, "", "hi"}
ThreadIdInputs == {Missing, "", "t1", "t2"}
ClientIds == {"t1"}
Uuids == {"u1", "u2"}

Truthy(s) == s # Missing /\ s # ""

NoError == [isError |-> FALSE, message |-> ""]
ErrorOf(m) == [isError |-> TRUE, message |-> m]
NonError == [isError |-> FALSE, message |-> "thrown string"]

\* error instanceof Error ? error.message : 'Unknown error'
ErrorMessage(e) == IF e.isError THEN e.message ELSE "Unknown error"

StrItem(s) == [type |-> "string", text |-> s]
TextItem(s) == [type |-> "text", text |-> s]
ImageItem(u) == [type |-> "image_url", text |-> u]
OtherItem == [type |-> "tool_use", text |-> ""]

StringContent(s) == [kind |-> "string", s |-> s, parts |-> <<>>]
ArrayContent(p) == [kind |-> "array", s |-> "", parts |-> p]
NoContent == [kind |-> "undefined", s |-> "", parts |-> <<>>]

Contents ==
    { NoContent, StringContent("a"),
      ArrayContent(<<TextItem("a"), OtherItem, ImageItem("u"), StrItem("b")>>),
      ArrayContent(<<OtherItem>>) }

----------------------------------------------------------------------------
(* app/api/chat/route.ts: content conversion *)

handleComplexContent(item) ==
    CASE item.type = "text" -> item.text
      [] item.type = "image_url" -> "[Image: " \o item.text \o "]"
      [] OTHER -> ""

\* .map(item => typeof item === 'string' ? item : handleComplexContent(item))
MapItems(parts) ==
    [i \in 1..Len(parts) |->
        IF parts[i].type = "string" THEN parts[i].text
        ELSE handleComplexContent(parts[i])]

\* .filter(Boolean)
FilterBoolean(strs) == SelectSeq(strs, LAMBDA x : x # "")

RECURSIVE JoinWith(_, _)
JoinWith(strs, sep) ==
    IF Len(strs) = 0 THEN ""
    ELSE IF Len(strs) = 1 THEN strs[1]
    ELSE strs[1] \o sep \o JoinWith(Tail(strs), sep)

convertMessageContentToString(content) ==
    CASE content.kind = "string" -> content.s
      [] content.kind = "array" -> JoinWith(FilterBoolean(MapItems(content.parts)), " ")
      [] OTHER -> ""

\* JavaScript truthiness of message.content: undefined and '' are falsy, an
\* array (even an empty one) is truthy.
ContentTruthy(content) ==
    CASE content.kind = "string" -> content.s # ""
      [] content.kind = "array" -> TRUE
      [] OTHER -> FALSE

\* const contentToSend = message.content ? convert(message.content) : ""
contentToSend(content) ==
    IF ContentTruthy(content) THEN convertMessageContentToString(content) ELSE ""

\* the text of all the items of yielded, concatenated (the cumulative answer)
RECURSIVE ConcatAll(_)
ConcatAll(yielded) ==
    IF Len(yielded) = 0 THEN ""
    ELSE ConcatAll(SubSeq(yielded, 1, Len(yielded) - 1))
            \o contentToSend(yielded[Len(yielded)].content)

EventPayload_Cumulative(yielded) == ConcatAll(yielded)

\* The text the loop body sends for the item just yielded (the last of
\* yielded): it is computed from that item's content alone.
EventPayload(yielded) == contentToSend(yielded[Len(yielded)].content)

----------------------------------------------------------------------------
(* app/api/chat/route.ts: the events of the stream *)

DoneEvent == "data: [DONE]\n\n"

\* encoder.encode(`data: ${contentToSend}\n\n`)
DataEvent(text) == "data: " \o text \o "\n\n"

ErrorEvent(e) == "data: Error: " \o ErrorMessage(e) \o "\n\n"

\* `data: ${JSON.stringify({ error: errorMessage })}\n\n`
ApiErrorEvent(e) == "data: {\"error\":\"" \o ErrorMessage(e) \o "\"}\n\n"

----------------------------------------------------------------------------
(* The response stream (a TransformStream) and its writer.                 *)
(* A write settles once the readable side is being read, which needs the   *)
(* readable to have been handed to the client; on a stream the client has  *)
(* cancelled (errored) or that is closed, write and close reject.          *)

WriteOp(data, src) == [op |-> "write", data |-> data, res |-> "pending", src |-> src]
CloseOp == [op |-> "close", data |-> "", res |-> "pending", src |-> 0]

Invoke_Prepend(log, o) == <<o>> \o log

\* the call is recorded when it is made: the writer takes calls in call order
Invoke(log, o) == Append(log, o)

\* the outcome of the call awaited (always the last one made)
Settled(log, res) == [log EXCEPT ![Len(log)].res = res]

WriteCanSettle == wstate # "open" \/ handed
WriteResult == IF wstate = "open" THEN "ok" ELSE "rejected"
CloseResult == IF wstate = "open" THEN "ok" ELSE "rejected"

----------------------------------------------------------------------------
(* lib/graph.ts: the thread registry *)

IsTracked_Never(threads, id) == FALSE

\* existingThreadId && activeThreads.has(existingThreadId)
IsTracked(threads, id) == Truthy(id) /\ id \in DOMAIN threads

\* activeThreads.set(threadId, Date.now())
SetThread(threads, id, t) ==
    [k \in (DOMAIN threads) \cup {id} |-> IF k = id THEN t ELSE threads[k]]

\* uuidv4() runs only when no id was given
NeedsUuid(threads, id) == ~IsTracked(threads, id) /\ ~Truthy(id)

FreshUuids_Reused(used) == Uuids

\* uuidv4(): an id that was never returned before
FreshUuids(used) == Uuids \ used

UuidChoice(threads, id, used) ==
    IF NeedsUuid(threads, id) THEN FreshUuids(used) ELSE {Missing}

NewThreadId_AlwaysMint(id, u) == u

\* const threadId = existingThreadId || uuidv4()
NewThreadId(id, u) == IF Truthy(id) THEN id ELSE u

\* the thread_id of the config createOrGetConversation returns
ThreadIdFor(threads, id, u) ==
    IF IsTracked(threads, id) THEN id ELSE NewThreadId(id, u)

Registered_Refreshed(threads, id, u, t) ==
    SetThread(threads, IF IsTracked(threads, id) THEN id ELSE NewThreadId(id, u), t)

\* activeThreads after the synchronous part of createOrGetConversation
Registered(threads, id, u, t) ==
    IF IsTracked(threads, id) THEN threads
    ELSE SetThread(threads, NewThreadId(id, u), t)

MintedAfter(threads, id, u, used) ==
    IF NeedsUuid(threads, id) THEN used \cup {u} ELSE used

----------------------------------------------------------------------------
(* lib/agent.ts: VectorSearchRunnable.invoke and ycVectorNode.  The         *)
(* embedding, vector index and completion services are the environment:    *)
(* an element of Envs says what each call the invocation reaches does.     *)

\* new HumanMessage(...), new AIMessage(...)
HumanMessage(c) == [type |-> "human", content |-> c]
AIMessage(c) == [type |-> "ai", content |-> c]

NoMatchText == "No matching results found in the database."
ErrorMsg ==
    "Sorry, I encountered an error while searching the database. Please try again."
NodeApology ==
    "I apologize, but I encountered an error. Could you rephrase your question?"

\* llmResponse.content when it is a string
CompletionText(query) == "re: " \o query

\* JSON.stringify(llmResponse.content) when it is a list of content blocks
CompletionBlocks(query) ==
    "[{\"type\":\"text\",\"text\":\"" \o CompletionText(query) \o "\"}]"

\* JSON.stringify(formattedResults)
FormattedContext == "[{\"type\":\"company\"}]"

Stages == {"embed", "search", "prefetch", "format", "llm"}

\* a stage the invocation does not reach is "none"
Reached(e) ==
    /\ e.inner = "throws" => \A st \in Stages : e[st] = "none"
    /\ e.inner = "ok" => e.embed # "none"
    /\ (e.search # "none") = (e.embed = "ok")
    /\ (e.prefetch # "none") = (e.embed = "ok")
    /\ (e.format # "none") = (e.search = "matches" /\ e.prefetch = "ok")
    /\ (e.llm # "none") = (e.format = "ok")

Envs ==
    {e \in [inner : {"ok", "throws"},
            embed : {"ok", "throws", "none"},
            search : {"missing", "empty", "matches", "throws", "none"},
            prefetch : {"ok", "throws", "none"},
            format : {"ok", "throws", "none"},
            llm : {"text", "blocks", "throws", "none"}] : Reached(e)}

ThrowingStages(e) == {st \in Stages : e[st] = "throws"}

InsideTry_OnlyCompletion(st) == st = "llm"

\* the try block spans the whole body of invoke
InsideTry(st) == TRUE

\* !searchResults.matches || searchResults.matches.length === 0
NoMatches(e) == e.search \in {"missing", "empty"}

AnswerOf_TextOnly(query, e) == CompletionText(query)

\* typeof llmResponse.content === 'string' ? ... : JSON.stringify(...)
AnswerOf(query, e) ==
    IF e.llm = "text" THEN CompletionText(query) ELSE CompletionBlocks(query)

InvokeReturn(query, answer, context) ==
    [threw |-> FALSE,
     chat_history |-> <<HumanMessage(query), AIMessage(answer)>>,
     context |-> context,
     answer |-> answer]

InvokeThrow ==
    [threw |-> TRUE, chat_history |-> <<>>, context |-> Missing, answer |-> Missing]

\* lines 256-263: one entry of the chat history as a prompt line
RenderMessage(m) ==
    IF m.type = "human" THEN "Human: " \o m.content
    ELSE IF m.type = "ai" THEN "Assistant: " \o m.content
    ELSE m.content

\* state.chat_history.map(...) before .join('\n'): the lines of the prompt
RenderHistory(history) == [i \in 1..Len(history) |-> RenderMessage(history[i])]

\* VectorSearchRunnable.invoke(state) under the environment e
invoke(state, e) ==
    IF ThrowingStages(e) # {}
    THEN IF \A st \in ThrowingStages(e) : InsideTry(st)
         THEN InvokeReturn(state.input, ErrorMsg, "")
         ELSE InvokeThrow
    ELSE IF NoMatches(e)
         THEN InvokeReturn(state.input, NoMatchText, "")
         ELSE InvokeReturn(state.input, AnswerOf(state.input, e), FormattedContext)

\* this.index.query calls and this.llm.invoke calls of one invocation
QueryCalls(e) == IF e.search # "none" THEN 1 ELSE 0
CompletionCalls(e) == IF e.llm # "none" THEN 1 ELSE 0

\* messagesStateReducer for messages without ids: the update is appended
messagesStateReducer(left, right) == left \o right

\* the messages channel of AgentState: an append-only list
AgentStateMessages(left, right) == left \o right

\* { input, chat_history: state.messages } as the inner workflow sees it
InnerState(msgs) ==
    [input |-> msgs[Len(msgs)].content,
     chat_history |-> messagesStateReducer(<<>>, msgs)]

\* ycVectorNode(state) under the environment e: its state update
ycVectorNode(state, e) ==
    LET r == invoke(InnerState(state.messages), e)
    IN  [messages |->
            <<HumanMessage(IF e.inner = "throws" \/ r.threw
                           THEN NodeApology ELSE r.answer)>>,
         sender |-> "YCVectorKnowledge"]

NoTurn ==
    [requested |-> Missing, thread |-> Missing, input |-> Missing,
     tracked |-> FALSE, pc |-> "idle",
     resume |-> Missing, nodeRuns |-> 0, queries |-> 0, completions |-> 0]

InterruptSuspends_Never(resume) == FALSE

\* interrupt("Ready for user input.") stops the run unless the run was
\* started with a resume value
InterruptSuspends(resume) == resume = Missing

----------------------------------------------------------------------------
(* components/chatInterface.tsx: parseSummary.  A text is the sequence of  *)
(* its characters; each of the three labels is one element of it.          *)

DiscussionsLabel == <<"Discussions till now:">>
LastTaskLabel == <<"Last task or action item assigned:">>
ContextLabel == <<"Important context for next interactions:">>

\* const formatted = { discussions: [], lastTask: [], context: [] }
NoSummary == [discussions |-> <<>>, lastTask |-> <<>>, context |-> <<>>]

\* String.prototype.startsWith
StartsWith(s, p) == Len(p) <= Len(s) /\ SubSeq(s, 1, Len(p)) = p

\* the index of the first occurrence of p in s, 0 when there is none
IndexOf(s, p) ==
    LET hits == {i \in 1..(Len(s) - Len(p) + 1) : SubSeq(s, i, i + Len(p) - 1) = p}
    IN  IF hits = {} THEN 0 ELSE CHOOSE i \in hits : \A j \in hits : i <= j

\* String.prototype.split with a non-empty separator
RECURSIVE Split(_, _)
Split(s, sep) ==
    IF IndexOf(s, sep) = 0 THEN <<s>>
    ELSE <<SubSeq(s, 1, IndexOf(s, sep) - 1)>>
         \o Split(SubSeq(s, IndexOf(s, sep) + Len(sep), Len(s)), sep)

\* String.prototype.replace(p, ''): the first occurrence is removed
RemoveFirst(s, p) ==
    IF IndexOf(s, p) = 0 THEN s
    ELSE SubSeq(s, 1, IndexOf(s, p) - 1)
         \o SubSeq(s, IndexOf(s, p) + Len(p), Len(s))

IsSpace(c) == c \in {" ", "\n"}

RECURSIVE TrimStart(_)
TrimStart(s) ==
    IF s # <<>> /\ IsSpace(s[1]) THEN TrimStart(SubSeq(s, 2, Len(s))) ELSE s

RECURSIVE TrimEnd(_)
TrimEnd(s) ==
    IF s # <<>> /\ IsSpace(s[Len(s)]) THEN TrimEnd(SubSeq(s, 1, Len(s) - 1)) ELSE s

\* String.prototype.trim
Trim(s) == TrimEnd(TrimStart(s))

\* line => line.trim().startsWith('-')
IsBulletLine(line) == StartsWith(Trim(line), <<"-">>)

\* line => line.trim().substring(2)
StripMarker(line) == SubSeq(Trim(line), 3, Len(Trim(line)))

\* section.replace(label, '').trim().split('\n').filter(...).map(...)
BulletsOf(section, label) ==
    LET kept == SelectSeq(Split(Trim(RemoveFirst(section, label)), <<"\n">>),
                          IsBulletLine)
    IN  [i \in 1..Len(kept) |-> StripMarker(kept[i])]

\* the body of the for loop (lines 382-404) for one section
WithSection(f, section) ==
    IF StartsWith(section, DiscussionsLabel)
    THEN [f EXCEPT !.discussions = BulletsOf(section, DiscussionsLabel)]
    ELSE IF StartsWith(section, LastTaskLabel)
    THEN [f EXCEPT !.lastTask = BulletsOf(section, LastTaskLabel)]
    ELSE IF StartsWith(section, ContextLabel)
    THEN [f EXCEPT !.context = BulletsOf(section, ContextLabel)]
    ELSE f

RECURSIVE OverSections(_, _)
OverSections(sections, n) ==
    IF n = 0 THEN NoSummary
    ELSE WithSection(OverSections(sections, n - 1), sections[n])

\* lines 373-407
parseSummary(text) ==
    LET sections == Split(text, <<"\n", "\n">>)
    IN  OverSections(sections, Len(sections))

----------------------------------------------------------------------------
(* lib/graph.ts: initializeGraph / createWorkflow, config/db-config.ts.     *)
(* Run for one caller with nothing interleaved: saverOk is whether         *)
(* saver.setup() succeeds.                                                 *)

SetupError == ErrorOf("saver setup failed")
StreamCallError == ErrorOf("graph.stream failed")
WriterError == ErrorOf("stream is not writable")

InitializeGraphThrows(saverOk) == graph = 0 /\ memory = 0 /\ ~saverOk

InitializeGraph(saverOk) ==
    IF graph # 0 THEN UNCHANGED graphVars
    ELSE IF memory # 0
         THEN /\ nWorkflows' = nWorkflows + 1
              /\ graph' = nWorkflows + 1
              /\ UNCHANGED <<memory, nSavers, turnVars, loadVars, summaryVars, callerVars, clientVars>>
         ELSE /\ nSavers' = nSavers + 1
              /\ IF saverOk
                 THEN /\ memory' = nSavers + 1
                      /\ nWorkflows' = nWorkflows + 1
                      /\ graph' = nWorkflows + 1
                 ELSE UNCHANGED <<memory, nWorkflows, graph, turnVars, loadVars, summaryVars, callerVars, clientVars>>

(* lib/graph.ts: createOrGetConversation called by several requests at     *)
(* once.  A call runs without interruption up to its next await; what      *)
(* other calls do between two awaits is interleaved.                       *)

Callers == 1..MaxCallers

\* a call that has not started
NoCaller ==
    [pc |-> "idle", arg |-> Missing, threadId |-> Missing,
     built |-> 0, got |-> 0, threw |-> FALSE]

\* where a call stops first: `if (!graph)` (line 35), `if (!memory)` (line 20)
FirstAwait(g, m) ==
    IF g # 0 THEN "returning" ELSE IF m # 0 THEN "compiled" ELSE "saver"

----------------------------------------------------------------------------
(* app/api/chat/route.ts: requests and responses *)

GetRequests ==
    [method : {"GET"}, body : {"object"}, message : Messages, threadId : ThreadIdInputs]

\* request.json() yields an object, yields null, or throws
PostRequests ==
    [method : {"POST"}, body : {"object"}, message : Messages, threadId : ThreadIdInputs]
    \cup [method : {"POST"}, body : {"null", "malformed"},
          message : {Missing}, threadId : {Missing}]

NoRequest == [method |-> "", body |-> "", message |-> Missing, threadId |-> Missing]

NoResponse == [status |-> 0, kind |-> "none", body |-> ""]
JsonResponse(status, error) == [status |-> status, kind |-> "json", body |-> error]
StreamResponse == [status |-> 200, kind |-> "stream", body |-> ""]
\* a rejection that leaves the route handler is answered by the framework
FrameworkError == [status |-> 500, kind |-> "framework", body |-> ""]

RequiredMessage == "Message and threadId are required"
InternalMessage == "Internal server error"

\* if (!message || !threadId)
Invalid(r) == ~Truthy(r.message) \/ ~Truthy(r.threadId)

IterItems ==
    [kind : {"chunk"}, content : Contents, error : {NoError}]
    \cup [kind : {"other", "end"}, content : {NoContent}, error : {NoError}]
    \cup [kind : {"throw"}, content : {NoContent}, error : {ErrorOf("boom"), NonError}]

WritePcs == {"api_write", "w_data", "w_done_in", "w_done_end", "w_err"}
ClosePcs == {"api_close", "c_done_in", "c_done_end", "c_err"}
EndPcs == {"idle", "returned", "task_end"}

\* line 79: if (contentToSend && !isStreamClosed)
ShouldSend(text, closed) == text # "" /\ ~closed

AfterLoopWrites_Never(closed) == FALSE

\* line 85: if (!isStreamClosed)
AfterLoopWrites(closed) == ~closed

----------------------------------------------------------------------------
(* handleChatStream: pieces shared by several steps.  log and closed are   *)
(* the values of ops and isStreamClosed the piece starts from.             *)

\* lines 90-98: the catch block of the detached task, up to its first await
InnerCatch(e, log, closed) ==
    /\ caught' = e
    /\ IF ~closed
       THEN /\ ops' = Invoke(log, WriteOp(ErrorEvent(e), 0))
            /\ pc' = "w_err"
       ELSE /\ ops' = log
            /\ pc' = "task_end"

\* lines 85-89: after the loop, up to the first await
AfterLoop(log, closed) ==
    IF AfterLoopWrites(closed)
    THEN /\ ops' = Invoke(log, WriteOp(DoneEvent, 0))
         /\ pc' = "w_done_end"
    ELSE /\ ops' = log
         /\ pc' = "task_end"

\* lines 109-115: the catch block of handleChatStream, up to its first await
ApiCatch(e) ==
    /\ caught' = e
    /\ IF ~isStreamClosed
       THEN /\ ops' = Invoke(ops, WriteOp(ApiErrorEvent(e), 0))
            /\ pc' = "api_write"
            /\ UNCHANGED response
       ELSE /\ response' = JsonResponse(500, ErrorMessage(e))
            /\ pc' = "returned"
            /\ UNCHANGED ops

\* lines 43-49: a new writer and flag, then createOrGetConversation runs up
\* to its await of initializeGraph
HandleChatStreamEntry(r) ==
    /\ \E u \in UuidChoice(activeThreads, r.threadId, minted) :
          /\ activeThreads' = Registered(activeThreads, r.threadId, u, now)
          /\ minted' = MintedAfter(activeThreads, r.threadId, u, minted)
    /\ pc' = "await_cogc"
    /\ response' = NoResponse

BeginRequest(r) ==
    /\ pc \in {"idle", "returned", "task_end"}
    /\ nreq < MaxRequests
    /\ nreq' = nreq + 1
    /\ req' = r
    /\ startedAt' = now
    /\ isStreamClosed' = FALSE
    /\ wstate' = "open"
    /\ handed' = FALSE
    /\ ops' = <<>>
    /\ items' = <<>>
    /\ caught' = NoError
    /\ escaped' = FALSE

----------------------------------------------------------------------------
(* app/api/chat/route.ts: the steps of a request *)

GET(r) ==
    /\ r \in GetRequests
    /\ BeginRequest(r)
    /\ IF Invalid(r)
       THEN /\ response' = JsonResponse(400, RequiredMessage)
            /\ pc' = "returned"
            /\ UNCHANGED <<activeThreads, minted, turnVars, loadVars, summaryVars, callerVars, clientVars>>
       ELSE HandleChatStreamEntry(r)
    /\ UNCHANGED <<graphVars, now, registryLog, turnVars, loadVars, summaryVars,
                   callerVars, clientVars>>

POST(r) ==
    /\ r \in PostRequests
    /\ BeginRequest(r)
    /\ IF r.body # "object"
       THEN \* request.json() throws, or body.message throws on null
            /\ response' = JsonResponse(500, InternalMessage)
            /\ pc' = "returned"
            /\ UNCHANGED <<activeThreads, minted, turnVars, loadVars, summaryVars, callerVars, clientVars>>
       ELSE IF Invalid(r)
       THEN /\ response' = JsonResponse(400, RequiredMessage)
            /\ pc' = "returned"
            /\ UNCHANGED <<activeThreads, minted, turnVars, loadVars, summaryVars, callerVars, clientVars>>
       ELSE HandleChatStreamEntry(r)
    /\ UNCHANGED <<graphVars, now, registryLog, turnVars, loadVars, summaryVars,
                   callerVars, clientVars>>

\* line 49 resumes: initializeGraph has settled
CogcSettle(saverOk) ==
    /\ pc = "await_cogc"
    /\ InitializeGraph(saverOk)
    /\ IF InitializeGraphThrows(saverOk)
       THEN ApiCatch(SetupError)
       ELSE /\ pc' = "await_stream"
            /\ UNCHANGED <<ops, caught, response, turnVars, loadVars, summaryVars, callerVars, clientVars>>
    /\ UNCHANGED <<req, nreq, startedAt, isStreamClosed, wstate, handed, items,
                   escaped, activeThreads, now, minted, registryLog, turnVars, loadVars,
                   summaryVars, callerVars, clientVars>>

\* line 51 resumes: graph.stream has settled; on success the detached task
\* starts (and waits for the first item) and the response is returned
StreamSettle(ok) ==
    /\ pc = "await_stream"
    /\ IF ok
       THEN /\ handed' = TRUE
            /\ response' = StreamResponse
            /\ pc' = "iter"
            /\ UNCHANGED <<ops, caught, turnVars, loadVars, summaryVars, callerVars, clientVars>>
       ELSE /\ ApiCatch(StreamCallError)
            /\ UNCHANGED handed
    /\ UNCHANGED <<req, nreq, startedAt, isStreamClosed, wstate, items, escaped,
                   activeThreads, graphVars, now, minted, registryLog, turnVars, loadVars,
                   summaryVars, callerVars, clientVars>>

\* line 64: the iterator settles with its next result; the loop body runs up
\* to its first await
IterNext(it) ==
    /\ pc = "iter"
    /\ it \in IterItems
    /\ it.kind = "chunk" => Len(items) < MaxItems
    /\ items' = Append(items, it)
    /\ CASE it.kind = "throw" -> InnerCatch(it.error, ops, isStreamClosed)
         [] it.kind = "end" ->
                AfterLoop(ops, isStreamClosed) /\ UNCHANGED caught
         [] it.kind = "other" ->
                /\ IF isStreamClosed
                   THEN pc' = "break" /\ UNCHANGED ops
                   ELSE /\ ops' = Invoke(ops, WriteOp(DoneEvent, Len(items')))
                        /\ pc' = "w_done_in"
                /\ UNCHANGED caught
         [] it.kind = "chunk" ->
                /\ IF isStreamClosed
                   THEN pc' = "break" /\ UNCHANGED ops
                   ELSE IF ShouldSend(EventPayload(items'), isStreamClosed)
                   THEN /\ ops' = Invoke(ops, WriteOp(DataEvent(EventPayload(items')),
                                                      Len(items')))
                        /\ pc' = "w_data"
                   ELSE pc' = "iter" /\ UNCHANGED ops
                /\ UNCHANGED caught
    /\ UNCHANGED <<req, nreq, startedAt, isStreamClosed, wstate, handed, response,
                   escaped, activeThreads, graphVars, now, minted, registryLog, turnVars, loadVars,
                   summaryVars, callerVars, clientVars>>

\* an awaited writer.write settles (lines 69, 81, 86, 94, 113) and the code
\* after it runs up to the next await
SettleWrite ==
    /\ pc \in WritePcs
    /\ WriteCanSettle
    /\ LET res == WriteResult
           log == Settled(ops, res)
       IN  CASE pc = "w_data" ->
                    /\ IF res = "ok"
                       THEN pc' = "iter" /\ ops' = log /\ UNCHANGED caught
                       ELSE InnerCatch(WriterError, log, isStreamClosed)
                    /\ UNCHANGED <<escaped, response, turnVars, loadVars, summaryVars, callerVars, clientVars>>
             [] pc = "w_done_in" ->
                    /\ IF res = "ok"
                       THEN /\ ops' = Invoke(log, CloseOp)
                            /\ pc' = "c_done_in"
                            /\ UNCHANGED caught
                       ELSE InnerCatch(WriterError, log, isStreamClosed)
                    /\ UNCHANGED <<escaped, response, turnVars, loadVars, summaryVars, callerVars, clientVars>>
             [] pc = "w_done_end" ->
                    /\ IF res = "ok"
                       THEN /\ ops' = Invoke(log, CloseOp)
                            /\ pc' = "c_done_end"
                            /\ UNCHANGED caught
                       ELSE InnerCatch(WriterError, log, isStreamClosed)
                    /\ UNCHANGED <<escaped, response, turnVars, loadVars, summaryVars, callerVars, clientVars>>
             [] pc = "w_err" ->
                    /\ IF res = "ok"
                       THEN /\ ops' = Invoke(log, CloseOp)
                            /\ pc' = "c_err"
                            /\ UNCHANGED escaped
                       ELSE /\ ops' = log
                            /\ pc' = "task_end"
                            /\ escaped' = TRUE
                    /\ UNCHANGED <<caught, response, turnVars, loadVars, summaryVars, callerVars, clientVars>>
             [] pc = "api_write" ->
                    /\ IF res = "ok"
                       THEN /\ ops' = Invoke(log, CloseOp)
                            /\ pc' = "api_close"
                            /\ UNCHANGED response
                       ELSE /\ ops' = log
                            /\ pc' = "returned"
                            /\ response' = FrameworkError
                    /\ UNCHANGED <<caught, escaped, turnVars, loadVars, summaryVars, callerVars, clientVars>>
    /\ UNCHANGED <<req, nreq, startedAt, isStreamClosed, wstate, handed, items,
                   activeThreads, graphVars, now, minted, registryLog, turnVars, loadVars,
                   summaryVars, callerVars, clientVars>>

\* an awaited writer.close settles (lines 70, 87, 95, 114) and the code after
\* it runs up to the next await
SettleClose ==
    /\ pc \in ClosePcs
    /\ LET res == CloseResult
           log == Settled(ops, res)
       IN  /\ wstate' = IF res = "ok" THEN "closed" ELSE wstate
           /\ CASE pc = "c_done_in" ->
                    /\ IF res = "ok"
                       THEN /\ isStreamClosed' = TRUE
                            /\ pc' = "break"
                            /\ ops' = log
                            /\ UNCHANGED caught
                       ELSE /\ InnerCatch(WriterError, log, isStreamClosed)
                            /\ UNCHANGED isStreamClosed
                    /\ UNCHANGED <<escaped, response, turnVars, loadVars, summaryVars, callerVars, clientVars>>
                [] pc = "c_done_end" ->
                    /\ IF res = "ok"
                       THEN /\ isStreamClosed' = TRUE
                            /\ pc' = "task_end"
                            /\ ops' = log
                            /\ UNCHANGED caught
                       ELSE /\ InnerCatch(WriterError, log, isStreamClosed)
                            /\ UNCHANGED isStreamClosed
                    /\ UNCHANGED <<escaped, response, turnVars, loadVars, summaryVars, callerVars, clientVars>>
                [] pc = "c_err" ->
                    /\ ops' = log
                    /\ pc' = "task_end"
                    /\ isStreamClosed' = (res = "ok" \/ isStreamClosed)
                    /\ escaped' = (res # "ok")
                    /\ UNCHANGED <<caught, response, turnVars, loadVars, summaryVars, callerVars, clientVars>>
                [] pc = "api_close" ->
                    /\ ops' = log
                    /\ pc' = "returned"
                    /\ response' = IF res = "ok"
                                   THEN JsonResponse(500, ErrorMessage(caught))
                                   ELSE FrameworkError
                    /\ UNCHANGED <<caught, escaped, isStreamClosed, turnVars, loadVars, summaryVars, callerVars, clientVars>>
    /\ UNCHANGED <<req, nreq, startedAt, handed, items, activeThreads, graphVars,
                   now, minted, registryLog, turnVars, loadVars, summaryVars, callerVars,
                   clientVars>>

\* line 73 (and 65): break leaves the for await, which awaits the iterator's
\* return(); then lines 85-89, or the catch block if return() rejected
BreakReturn(ok) ==
    /\ pc = "break"
    /\ IF ok
       THEN AfterLoop(ops, isStreamClosed) /\ UNCHANGED caught
       ELSE InnerCatch(ErrorOf("return failed"), ops, isStreamClosed)
    /\ UNCHANGED <<req, nreq, startedAt, isStreamClosed, wstate, handed, items,
                   response, escaped, activeThreads, graphVars, now, minted,
                   registryLog, turnVars, loadVars, summaryVars, callerVars,
                   clientVars>>

\* the client goes away: the readable side is cancelled, which errors the
\* writable side
ClientDisconnect ==
    /\ handed
    /\ wstate = "open"
    /\ pc \notin EndPcs
    /\ wstate' = "errored"
    /\ UNCHANGED <<pc, req, nreq, startedAt, isStreamClosed, handed, ops, items,
                   response, caught, escaped, activeThreads, graphVars, now,
                   minted, registryLog, turnVars, loadVars, summaryVars, callerVars,
                   clientVars>>

\* time passes while a request is in flight
Tick ==
    /\ pc \notin EndPcs
    /\ now - startedAt <= maxDuration * 1000
    /\ now' = now + TickMs
    /\ UNCHANGED <<gatewayVars, activeThreads, graphVars, minted, registryLog, turnVars, loadVars,
                   summaryVars, callerVars, clientVars>>

----------------------------------------------------------------------------

Init ==
    /\ pc = "idle"
    /\ req = NoRequest
    /\ nreq = 0
    /\ startedAt = 0
    /\ isStreamClosed = FALSE
    /\ wstate = "open"
    /\ handed = FALSE
    /\ ops = <<>>
    /\ items = <<>>
    /\ response = NoResponse
    /\ caught = NoError
    /\ escaped = FALSE
    /\ activeThreads = << >>
    /\ graph = 0
    /\ memory = 0
    /\ nWorkflows = 0
    /\ nSavers = 0
    /\ now = 0
    /\ minted = {}
    /\ calls = <<>>
    /\ lastResolved = << >>
    /\ store = << >>
    /\ turn = NoTurn
    /\ nturns = 0
    /\ seen = <<>>
    /\ checkpoints = <<>>
    /\ messages = <<>>
    /\ sourceSteps = <<>>
    /\ loaded = "no"
    /\ summary = <<>>
    /\ formatted = NoSummary
    /\ projected = FALSE
    /\ callers = [c \in Callers |-> NoCaller]
    /\ isLoading = FALSE
    /\ streams = <<>>

GatewayNext ==
    \/ \E r \in GetRequests : GET(r)
    \/ \E r \in PostRequests : POST(r)
    \/ \E saverOk \in BOOLEAN : CogcSettle(saverOk)
    \/ \E ok \in BOOLEAN : StreamSettle(ok)
    \/ \E it \in IterItems : IterNext(it)
    \/ SettleWrite
    \/ SettleClose
    \/ \E ok \in BOOLEAN : BreakReturn(ok)
    \/ ClientDisconnect
    \/ Tick

GatewaySpec == Init /\ [][GatewayNext]_vars

----------------------------------------------------------------------------
(* lib/graph.ts: createOrGetConversation called directly, and the sweep *)

RetentionMs == 24 * 60 * 60 * 1000

CallArgs == {Missing, ""} \cup ClientIds \cup minted

\* lines 48-63, one call from entry to return (or to the throw of
\* initializeGraph)
createOrGetConversation(arg, saverOk) ==
    /\ Len(calls) < MaxCalls
    /\ arg \in CallArgs
    /\ \E u \in UuidChoice(activeThreads, arg, minted) :
          /\ activeThreads' = Registered(activeThreads, arg, u, now)
          /\ minted' = MintedAfter(activeThreads, arg, u, minted)
          /\ calls' = Append(calls,
                [arg |-> arg,
                 tracked |-> IsTracked(activeThreads, arg),
                 threw |-> InitializeGraphThrows(saverOk),
                 ret |-> IF InitializeGraphThrows(saverOk) THEN Missing
                         ELSE ThreadIdFor(activeThreads, arg, u),
                 recorded |-> ThreadIdFor(activeThreads, arg, u)
                                \in DOMAIN Registered(activeThreads, arg, u, now)])
          /\ lastResolved' =
                SetThread(lastResolved, ThreadIdFor(activeThreads, arg, u), now)
    /\ InitializeGraph(saverOk)
    /\ UNCHANGED <<gatewayVars, now, turnVars, loadVars, summaryVars, callerVars, clientVars>>

Expired_Inverted(threads, id, t) == t - threads[id] < RetentionMs

\* now - timestamp > 24 * 60 * 60 * 1000
Expired(threads, id, t) == t - threads[id] > RetentionMs

\* lines 66-73: the setInterval callback
Sweep ==
    /\ activeThreads' =
          [id \in {k \in DOMAIN activeThreads : ~Expired(activeThreads, k, now)}
              |-> activeThreads[id]]
    /\ UNCHANGED <<gatewayVars, graphVars, now, minted, calls, lastResolved, turnVars, loadVars,
                   summaryVars, callerVars, clientVars>>

ClockTick ==
    /\ now < MaxClockSteps * ClockStepMs
    /\ now' = now + ClockStepMs
    /\ UNCHANGED <<gatewayVars, activeThreads, graphVars, minted, registryLog, turnVars, loadVars,
                   summaryVars, callerVars, clientVars>>

RegistryNext ==
    \/ \E arg \in CallArgs, saverOk \in BOOLEAN : createOrGetConversation(arg, saverOk)
    \/ Sweep
    \/ ClockTick

RegistrySpec == Init /\ [][RegistryNext]_vars

----------------------------------------------------------------------------
(* lib/graph.ts under concurrent requests: the steps of one call *)

\* lines 49-57, then initializeGraph (35) and createWorkflow (20-21, or
\* 24-31 when the saver exists) up to the first await.  Calls are numbered
\* in the order they start.
Enter(c, arg) ==
    /\ callers[c].pc = "idle"
    /\ \A d \in 1..(c - 1) : callers[d].pc # "idle"
    /\ arg \in CallArgs
    /\ \E u \in UuidChoice(activeThreads, arg, minted) :
          /\ activeThreads' = Registered(activeThreads, arg, u, now)
          /\ minted' = MintedAfter(activeThreads, arg, u, minted)
          /\ callers' = [callers EXCEPT ![c] =
                [pc |-> FirstAwait(graph, memory),
                 arg |-> arg,
                 threadId |-> ThreadIdFor(activeThreads, arg, u),
                 built |-> IF graph = 0 /\ memory # 0 THEN nWorkflows + 1 ELSE 0,
                 got |-> graph,
                 threw |-> FALSE]]
    /\ nSavers' = IF graph = 0 /\ memory = 0 THEN nSavers + 1 ELSE nSavers
    /\ nWorkflows' = IF graph = 0 /\ memory # 0 THEN nWorkflows + 1 ELSE nWorkflows
    /\ UNCHANGED <<gatewayVars, graph, memory, now, registryLog, turnVars, loadVars,
                   summaryVars, clientVars>>

\* saver.setup() settles (db-config.ts 22-29); on success line 21 assigns
\* memory and lines 24-31 compile the workflow, on failure the rejection
\* passes through initializeGraph's catch (38-41) to the caller
SaverSettle(c, ok) ==
    /\ callers[c].pc = "saver"
    /\ IF ok
       THEN /\ memory' = c
            /\ nWorkflows' = nWorkflows + 1
            /\ callers' = [callers EXCEPT ![c].pc = "compiled",
                                          ![c].built = nWorkflows + 1]
       ELSE /\ callers' = [callers EXCEPT ![c].pc = "done", ![c].threw = TRUE]
            /\ UNCHANGED <<memory, nWorkflows, clientVars>>
    /\ UNCHANGED <<gatewayVars, activeThreads, graph, nSavers, now, minted, registryLog,
                   turnVars, loadVars, summaryVars, clientVars>>

\* line 37: graph = await createWorkflow(), then line 43: return graph
Assign(c) ==
    /\ callers[c].pc = "compiled"
    /\ graph' = callers[c].built
    /\ callers' = [callers EXCEPT ![c].pc = "returning", ![c].got = callers[c].built]
    /\ UNCHANGED <<gatewayVars, activeThreads, memory, nWorkflows, nSavers, now, minted,
                   registryLog, turnVars, loadVars, summaryVars, clientVars>>

\* lines 50-53 / 59-62: the call returns { graph, config }
Return(c) ==
    /\ callers[c].pc = "returning"
    /\ callers' = [callers EXCEPT ![c].pc = "done"]
    /\ UNCHANGED <<gatewayVars, activeThreads, graphVars, now, minted, registryLog,
                   turnVars, loadVars, summaryVars, clientVars>>

InterleavedNext ==
    \/ \E c \in Callers, arg \in CallArgs : Enter(c, arg)
    \/ \E c \in Callers, ok \in BOOLEAN : SaverSettle(c, ok)
    \/ \E c \in Callers : Assign(c)
    \/ \E c \in Callers : Return(c)
    \/ Sweep
    \/ ClockTick

InterleavedSpec == Init /\ [][InterleavedNext]_vars

----------------------------------------------------------------------------
(* One conversation turn: handleChatStream resolves the thread and calls   *)
(* graph.stream; the compiled graph of lib/graph.ts runs ycKnowledge and   *)
(* then human, whose interrupt stops the run.                              *)

TurnThreads == {"t1"}
TurnMessages == {"hi", "ok"}

\* the input handleChatStream gives graph.stream (lines 52-55)
GraphInput(msg) == [messages |-> <<HumanMessage(msg)>>, sender |-> "user"]

\* graph.stream is given a state update, never a resume command
ResumeValue(input) == Missing

StateAfterInput_Reset(st, id, input) ==
    [messages |-> input.messages, sender |-> input.sender,
     next |-> "ycKnowledge", interrupted |-> FALSE]

\* the checkpoint of the thread with the input applied; the run starts at
\* START, whose edge leads to ycKnowledge
StateAfterInput(st, id, input) ==
    [messages |-> AgentStateMessages(IF id \in DOMAIN st THEN st[id].messages
                                     ELSE <<>>, input.messages),
     sender |-> input.sender,
     next |-> "ycKnowledge",
     interrupted |-> FALSE]

\* part_000 lines 49-60: createOrGetConversation(threadId), then graph.stream
TurnStart(id, msg) ==
    /\ turn.pc = "idle"
    /\ nturns < MaxTurns
    /\ LET thread == ThreadIdFor(activeThreads, id, Missing)
       IN  /\ activeThreads' = Registered(activeThreads, id, Missing, now)
           /\ lastResolved' = SetThread(lastResolved, thread, now)
           /\ store' = [k \in DOMAIN store \cup {thread} |->
                          IF k = thread
                          THEN StateAfterInput(store, thread, GraphInput(msg))
                          ELSE store[k]]
           /\ turn' = [NoTurn EXCEPT !.requested = id,
                                     !.thread = thread,
                                     !.input = msg,
                                     !.tracked = IsTracked(activeThreads, id),
                                     !.resume = ResumeValue(GraphInput(msg)),
                                     !.pc = "ycKnowledge"]
    /\ InitializeGraph(TRUE)
    /\ nturns' = nturns + 1
    /\ UNCHANGED <<gatewayVars, now, minted, calls, seen, loadVars, summaryVars,
                   callerVars, clientVars>>

\* the ycKnowledge node (agent.ts lines 324-362) and the edge to human
YcKnowledge(e) ==
    /\ turn.pc = "ycKnowledge"
    /\ LET st == store[turn.thread]
           upd == ycVectorNode(st, e)
           inner == InnerState(st.messages)
       IN  /\ store' = [store EXCEPT ![turn.thread] =
                          [@ EXCEPT !.messages = AgentStateMessages(@, upd.messages),
                                    !.sender = upd.sender,
                                    !.next = "human"]]
           /\ seen' = Append(seen,
                 [thread |-> turn.thread,
                  n |-> 1 + Cardinality({i \in 1..Len(seen) :
                                            seen[i].thread = turn.thread}),
                  input |-> inner.input,
                  env |-> e,
                  invoked |-> e.inner = "ok",
                  history |-> inner.chat_history,
                  result |-> IF e.inner = "ok" THEN invoke(inner, e)
                             ELSE InvokeThrow])
    /\ turn' = [turn EXCEPT !.pc = "human",
                            !.nodeRuns = @ + 1,
                            !.queries = @ + QueryCalls(e),
                            !.completions = @ + CompletionCalls(e)]
    /\ UNCHANGED <<gatewayVars, activeThreads, graphVars, now, minted,
                   registryLog, nturns, loadVars, summaryVars, callerVars,
                   clientVars>>

\* the human node (graph.ts lines 11-17) and the edge back to ycKnowledge
HumanNode ==
    /\ turn.pc = "human"
    /\ IF InterruptSuspends(turn.resume)
       THEN /\ store' = [store EXCEPT ![turn.thread].interrupted = TRUE]
            /\ turn' = [turn EXCEPT !.pc = "idle"]
       ELSE /\ store' = [store EXCEPT ![turn.thread] =
                           [@ EXCEPT !.messages =
                                        AgentStateMessages(@, <<HumanMessage(turn.resume)>>),
                                     !.sender = "user",
                                     !.next = "ycKnowledge"]]
            /\ turn' = [turn EXCEPT !.pc = "ycKnowledge"]
    /\ UNCHANGED <<gatewayVars, activeThreads, graphVars, now, minted,
                   registryLog, nturns, seen, loadVars, summaryVars, callerVars,
                   clientVars>>

\* part_000 lines 66-72: the consumer leaves the loop and returns the
\* iterator once ycKnowledge has produced output; the run may be abandoned
\* before the human node is entered
StreamReturn ==
    /\ turn.pc = "human"
    /\ turn' = [turn EXCEPT !.pc = "idle"]
    /\ UNCHANGED <<gatewayVars, activeThreads, graphVars, now, minted,
                   registryLog, store, nturns, seen, loadVars, summaryVars, callerVars,
                   clientVars>>

ConversationNext ==
    \/ \E id \in TurnThreads, msg \in TurnMessages : TurnStart(id, msg)
    \/ \E e \in Envs : YcKnowledge(e)
    \/ HumanNode
    \/ StreamReturn
    \/ Sweep
    \/ ClockTick

ConversationSpec == Init /\ [][ConversationNext]_vars

----------------------------------------------------------------------------
(* components/chatInterface.tsx: parseCheckpointMetadata and loadMessages. *)
(* writes is the list of its entries in key order; a message is its        *)
(* kwargs.content, "" when the content is missing or empty.                *)

Null == [role |-> "null", content |-> ""]
NullWrites == <<[key |-> "null", sender |-> "", messages |-> <<>>]>>

WritesEntry(key, sender, msgs) == [key |-> key, sender |-> sender, messages |-> msgs]

Metadata(step, source, writes) == [step |-> step, source |-> source, writes |-> writes]

parseCheckpointMetadata_SenderOnly(metadata) ==
    IF metadata.writes = NullWrites THEN Null
    ELSE IF Len(metadata.writes) = 0 THEN Null
    ELSE IF Len(metadata.writes[1].messages) = 0 THEN Null
    ELSE IF ~Truthy(metadata.writes[1].messages[1]) THEN Null
    ELSE [role |-> IF metadata.writes[1].sender = "user"
                   THEN "user" ELSE "assistant",
          content |-> metadata.writes[1].messages[1]]

\* lines 102-127
parseCheckpointMetadata(metadata) ==
    IF metadata.writes = NullWrites THEN Null
    ELSE IF Len(metadata.writes) = 0 THEN Null
    ELSE LET key == metadata.writes[1].key
             data == metadata.writes[1]
         IN  IF Len(data.messages) = 0 THEN Null
             ELSE IF ~Truthy(data.messages[1]) THEN Null
             ELSE [role |-> IF data.sender = "user"
                               \/ (metadata.source = "input" /\ key = "__start__")
                            THEN "user" ELSE "assistant",
                   content |-> data.messages[1]]

Compare_Descending(a, b) == b.metadata.step - a.metadata.step

\* (a, b) => a.metadata.step - b.metadata.step
Compare(a, b) == a.metadata.step - b.metadata.step

\* x placed after the elements of the sorted list it does not precede
RECURSIVE InsertSorted(_, _)
InsertSorted(sorted, x) ==
    IF sorted = <<>> THEN <<x>>
    ELSE IF Compare(x, sorted[Len(sorted)]) < 0
         THEN Append(InsertSorted(SubSeq(sorted, 1, Len(sorted) - 1), x),
                     sorted[Len(sorted)])
         ELSE Append(sorted, x)

\* Array.prototype.sort with Compare: a stable sort
RECURSIVE SortRows(_)
SortRows(rows) ==
    IF rows = <<>> THEN <<>>
    ELSE InsertSorted(SortRows(SubSeq(rows, 1, Len(rows) - 1)), rows[Len(rows)])

\* prevMsg.role === msg.role && prevMsg.content === msg.content
SameMessage(a, b) == a.role = b.role /\ a.content = b.content

KeepAt_All(array, index) == TRUE

KeepAt_NoEarlier(array, index) ==
    \A j \in 1..(index - 1) : ~SameMessage(array[j].msg, array[index].msg)

\* the callback of the second filter (lines 146-150); index counts from 1
KeepAt(array, index) ==
    \/ index = 1
    \/ ~SameMessage(array[index - 1].msg, array[index].msg)

RECURSIVE FilterKept(_, _)
FilterKept(array, n) ==
    IF n = 0 THEN <<>>
    ELSE IF KeepAt(array, n) THEN Append(FilterKept(array, n - 1), array[n])
         ELSE FilterKept(array, n - 1)

IsMessage(t) == t.msg # Null

\* lines 141-151; each message carries the step of its checkpoint
loadedMessages(rows) ==
    LET sorted == SortRows(rows)
        parsed == [i \in 1..Len(sorted) |->
                      [msg |-> parseCheckpointMetadata(sorted[i].metadata),
                       step |-> sorted[i].metadata.step]]
        nonNull == SelectSeq(parsed, IsMessage)
    IN  FilterKept(nonNull, Len(nonNull))

Steps == 0..2

MetadataValues ==
    {Metadata(st, "loop", NullWrites) : st \in Steps}
    \cup {Metadata(st, "input", <<WritesEntry("__start__", "user", <<"a">>)>>) :
             st \in Steps}
    \cup {Metadata(st, "loop",
                   <<WritesEntry("ycKnowledge", "YCVectorKnowledge", <<c>>)>>) :
             st \in Steps, c \in {"a", "b", ""}}
    \cup {Metadata(1, "loop", <<>>),
          Metadata(1, "loop", <<WritesEntry("ycKnowledge", "YCVectorKnowledge", <<>>)>>),
          Metadata(1, "loop", <<WritesEntry("human", "user", <<"b">>)>>),
          Metadata(1, "input", <<WritesEntry("__start__", "", <<"b">>)>>),
          Metadata(1, "loop", <<WritesEntry("__start__", "", <<"b">>)>>),
          Metadata(1, "input", <<WritesEntry("ycKnowledge", "", <<"b">>)>>),
          Metadata(1, "loop",
                   <<WritesEntry("ycKnowledge", "YCVectorKnowledge", <<"a", "b">>),
                     WritesEntry("human", "user", <<"b">>)>>)}

Rows == {[metadata |-> md] : md \in MetadataValues}

\* what the checkpoint query can return: n rows in any order
QueryResults(n) == [1..n -> Rows]

\* lines 129-158 when the query succeeds with the rows `rows`
LoadMessages ==
    /\ loaded = "no"
    /\ \E n \in 0..MaxCheckpoints : \E rows \in QueryResults(n) :
          /\ checkpoints' = rows
          /\ LET kept == loadedMessages(rows)
             IN  /\ messages' = [i \in 1..Len(kept) |-> kept[i].msg]
                 /\ sourceSteps' = [i \in 1..Len(kept) |-> kept[i].step]
    /\ loaded' = "yes"
    /\ UNCHANGED <<gatewayVars, activeThreads, graphVars, now, minted,
                   registryLog, turnVars, summaryVars, callerVars, clientVars>>

\* lines 139 and 155-157: the query reports an error, messages stay
LoadFails ==
    /\ loaded = "no"
    /\ loaded' = "failed"
    /\ UNCHANGED <<gatewayVars, activeThreads, graphVars, now, minted,
                   registryLog, turnVars, checkpoints, messages, sourceSteps,
                   summaryVars, callerVars, clientVars>>

ReconstructNext ==
    \/ LoadMessages
    \/ LoadFails

ReconstructSpec == Init /\ [][ReconstructNext]_vars

----------------------------------------------------------------------------
(* parseSummary applied to a summary text (ProjectSpec) *)

\* the pieces summary texts are put together from
Pieces ==
    {DiscussionsLabel, LastTaskLabel, ContextLabel, <<"\n">>, <<" ">>,
     <<"-", " ", "A">>, <<"-", " ", "B">>, <<"-", "A">>}

RECURSIVE Concat(_, _)
Concat(ps, n) == IF n = 0 THEN <<>> ELSE Concat(ps, n - 1) \o ps[n]

\* one call of parseSummary (line 444: parseSummary(data[0].summary))
ParseSummary ==
    /\ ~projected
    /\ \E n \in 0..MaxPieces : \E ps \in [1..n -> Pieces] :
          /\ summary' = Concat(ps, n)
          /\ formatted' = parseSummary(Concat(ps, n))
    /\ projected' = TRUE
    /\ UNCHANGED <<gatewayVars, activeThreads, graphVars, now, minted,
                   registryLog, turnVars, loadVars, callerVars, clientVars>>

ProjectNext == ParseSummary

ProjectSpec == Init /\ [][ProjectNext]_vars

----------------------------------------------------------------------------
(* components/chatInterface.tsx: handleSubmit, its EventSource and          *)
(* cleanMessage; app/page.tsx: handleTaskComplete.  A text is the sequence *)
(* of its characters; "data:", "[DONE]", the advisor prefixes and the fixed *)
(* messages are one element each.                                          *)

DoneData == <<"[DONE]">>
ClientApology == <<"Sorry, there was an error processing your request.">>
AdvisorPrefix == <<"YC Advisor:">>
YourAdvisorPrefix == <<"Your YC Advisor:">>

\* route.ts line 81: `data: ${contentToSend}\n\n`
Frame(text) == <<"data:", " ">> \o text \o <<"\n", "\n">>

\* route.ts line 94: `data: Error: ${errorMessage}\n\n`
ErrorFrame == Frame(<<"Error: boom">>)

\* EventSource: the value of a field line, without one leading space
FieldValue(line) ==
    IF Len(line) > 1 /\ line[2] = " " THEN SubSeq(line, 3, Len(line))
    ELSE SubSeq(line, 2, Len(line))

\* EventSource: the data of the events dispatched for the lines, buf being
\* the data buffer.  A blank line dispatches a non-empty buffer without its
\* last line feed; a line that is not a data field changes nothing.
RECURSIVE ParseLines(_, _)
ParseLines(lines, buf) ==
    IF lines = <<>> THEN <<>>
    ELSE IF Head(lines) = <<>>
         THEN IF buf = <<>> THEN ParseLines(Tail(lines), <<>>)
              ELSE <<SubSeq(buf, 1, Len(buf) - 1)>> \o ParseLines(Tail(lines), <<>>)
         ELSE IF Head(lines)[1] = "data:"
              THEN ParseLines(Tail(lines), buf \o FieldValue(Head(lines)) \o <<"\n">>)
              ELSE ParseLines(Tail(lines), buf)

\* EventSource: event.data of each message event the bytes give rise to
EventsOf(bytes) ==
    LET lines == Split(bytes, <<"\n">>)
    IN  ParseLines(SubSeq(lines, 1, Len(lines) - 1), <<>>)

MessageEvent(data) == [kind |-> "message", data |-> data]
ErrorEventOf == [kind |-> "error", data |-> <<>>]

MessageEvents(bytes) ==
    [i \in 1..Len(EventsOf(bytes)) |-> MessageEvent(EventsOf(bytes)[i])]

\* .replace(/^(YC\s*Advisor\s*(?:here)?:?\s*)/i, '')
StripPrefix(content, prefix) ==
    IF StartsWith(content, prefix)
    THEN TrimStart(SubSeq(content, Len(prefix) + 1, Len(content)))
    ELSE content

\* lines 266-272
cleanMessage(content) ==
    Trim(StripPrefix(StripPrefix(content, AdvisorPrefix), YourAdvisorPrefix))

Replaced_Appended(prev, msg) == Append(prev, msg)

\* [...prev.slice(0, -1), msg]
Replaced(prev, msg) == Append(SubSeq(prev, 1, Len(prev) - 1), msg)

UserMessage(content) == [role |-> "user", content |-> content]
AssistantMessage(content) == [role |-> "assistant", content |-> content]

\* the form (lines 260-264, gated by disabled={isLoading}) and the sidebar's
\* task-complete action (page.tsx 32-36)
Origins == {"form", "sidebar"}
SubmitText(origin) ==
    IF origin = "form" THEN <<"hi">> ELSE <<"I have completed the task: \"x\"">>

\* the text fragments the graph can yield to the gateway
Fragments ==
    {<<>>, <<"a">>, <<"b">>, <<" ">>, <<"\n">>, <<"a", "\n", "b">>,
     <<"YC Advisor:", " ", "a">>}

StreamIdx == 1..Len(streams)

TotalFragments ==
    LET RECURSIVE Sum(_)
        Sum(n) == IF n = 0 THEN 0 ELSE streams[n].count + Sum(n - 1)
    IN  Sum(Len(streams))

\* lines 173-205 and 225-241: handleSubmit up to its return
Submit(origin) ==
    /\ \A k \in StreamIdx : streams[k].origin # origin
    /\ origin = "form" => ~isLoading
    /\ messages' = messages \o <<UserMessage(SubmitText(origin)), AssistantMessage(<<>>)>>
    /\ isLoading' = TRUE
    /\ streams' = Append(streams,
          [origin |-> origin,
           slot |-> Len(messages) + 2,
           es |-> "open",
           assistantMessage |-> <<>>,
           inbox |-> <<>>,
           server |-> "streaming",
           received |-> <<>>,
           count |-> 0,
           done |-> FALSE])
    /\ UNCHANGED <<gatewayVars, activeThreads, graphVars, now, minted, registryLog,
                   turnVars, checkpoints, sourceSteps, loaded, summaryVars, callerVars>>

\* route.ts lines 64-83 for one chunk: a frame for a non-empty fragment
Emit(k, f) ==
    /\ streams[k].server = "streaming" /\ streams[k].es = "open"
    /\ TotalFragments < MaxFragments
    /\ streams' = [streams EXCEPT
          ![k].received = @ \o f,
          ![k].count = @ + 1,
          ![k].inbox = IF f = <<>> THEN @ ELSE @ \o MessageEvents(Frame(f))]
    /\ UNCHANGED <<gatewayVars, activeThreads, graphVars, now, minted, registryLog,
                   turnVars, loadVars, summaryVars, callerVars, isLoading>>

\* route.ts lines 67-73 and 85-89: [DONE], then the stream is closed
Finish(k) ==
    /\ streams[k].server = "streaming" /\ streams[k].es = "open"
    /\ streams' = [streams EXCEPT
          ![k].server = "closed",
          ![k].inbox = @ \o MessageEvents(Frame(DoneData)) \o <<ErrorEventOf>>]
    /\ UNCHANGED <<gatewayVars, activeThreads, graphVars, now, minted, registryLog,
                   turnVars, loadVars, summaryVars, callerVars, isLoading>>

\* route.ts lines 90-98: an error event and no [DONE], then the stream is
\* closed (withEvent); or a response that is no event stream (lines 116-119,
\* 130-133)
Fail(k, withEvent) ==
    /\ streams[k].server = "streaming" /\ streams[k].es = "open"
    /\ streams' = [streams EXCEPT
          ![k].server = "failed",
          ![k].inbox = @ \o (IF withEvent THEN MessageEvents(ErrorFrame) ELSE <<>>)
                          \o <<ErrorEventOf>>]
    /\ UNCHANGED <<gatewayVars, activeThreads, graphVars, now, minted, registryLog,
                   turnVars, loadVars, summaryVars, callerVars, isLoading>>

\* lines 193-204: processIncomingMessage
Processed(prev, content) ==
    IF Trim(cleanMessage(content)) # <<>>
    THEN Replaced(prev, AssistantMessage(cleanMessage(content)))
    ELSE prev

\* lines 206-223: the 'message' listener of the EventSource of submit k
OnMessage(k) ==
    /\ streams[k].es = "open"
    /\ streams[k].inbox # <<>>
    /\ Head(streams[k].inbox).kind = "message"
    /\ LET data == Head(streams[k].inbox).data
       IN  IF data = DoneData
           THEN /\ streams' = [streams EXCEPT ![k].es = "closed",
                                              ![k].done = TRUE,
                                              ![k].inbox = Tail(@)]
                /\ isLoading' = FALSE
                /\ UNCHANGED messages
           ELSE IF data # <<>>
           THEN /\ streams' = [streams EXCEPT ![k].assistantMessage = @ \o data,
                                              ![k].inbox = Tail(@)]
                /\ messages' = Processed(messages, streams[k].assistantMessage \o data)
                /\ UNCHANGED isLoading
           ELSE /\ streams' = [streams EXCEPT ![k].inbox = Tail(@)]
                /\ UNCHANGED <<messages, isLoading>>
    /\ UNCHANGED <<gatewayVars, activeThreads, graphVars, now, minted, registryLog,
                   turnVars, checkpoints, sourceSteps, loaded, summaryVars, callerVars>>

\* lines 225-236: the 'error' listener of the EventSource of submit k
OnError(k) ==
    /\ streams[k].es = "open"
    /\ streams[k].inbox # <<>>
    /\ Head(streams[k].inbox).kind = "error"
    /\ streams' = [streams EXCEPT ![k].es = "closed", ![k].inbox = Tail(@)]
    /\ isLoading' = FALSE
    /\ messages' = Replaced(messages, AssistantMessage(ClientApology))
    /\ UNCHANGED <<gatewayVars, activeThreads, graphVars, now, minted, registryLog,
                   turnVars, checkpoints, sourceSteps, loaded, summaryVars, callerVars>>

ClientNext ==
    \/ \E origin \in Origins : Submit(origin)
    \/ \E k \in StreamIdx, f \in Fragments : Emit(k, f)
    \/ \E k \in StreamIdx : Finish(k)
    \/ \E k \in StreamIdx, withEvent \in BOOLEAN : Fail(k, withEvent)
    \/ \E k \in StreamIdx : OnMessage(k)
    \/ \E k \in StreamIdx : OnError(k)

ClientSpec == Init /\ [][ClientNext]_vars

----------------------------------------------------------------------------
(* Properties of the gateway (GatewaySpec) *)

Elapsed == now - startedAt

OpIdx == 1..Len(ops)
WriteIdx == {i \in OpIdx : ops[i].op = "write"}
CloseIdx == {i \in OpIdx : ops[i].op = "close"}
DoneIdx == {i \in WriteIdx : ops[i].data = DoneEvent}
ErrorEvents == {ErrorEvent(e) : e \in {ErrorOf("boom"), NonError, WriterError,
                                       ErrorOf("return failed")}}
ErrorIdx == {i \in WriteIdx : ops[i].data \in ErrorEvents}
\* the events that carry answer text: written for a chunk the iterator yielded
TextIdx == {i \in WriteIdx : ops[i].src > 0 /\ items[ops[i].src].kind = "chunk"}
Rejected == {i \in OpIdx : ops[i].res = "rejected"}
LastItemKind == IF Len(items) = 0 THEN "none" ELSE items[Len(items)].kind

\* C1: the event 'data: [DONE]\n\n' is written at most once per request, and
\* once it has been written no further write to the stream is attempted,
\* whatever the iterator does and whichever write or close rejects.
C1_DoneOnceThenSilent ==
    /\ Cardinality(DoneIdx) <= 1
    /\ \A i \in DoneIdx : ops[i].res = "ok" =>
          \A j \in WriteIdx : j <= i

\* C2: when the iterator throws, exactly one 'data: Error: <message>' event is
\* written and the stream is then closed; on every completion path
\* writer.close() is invoked at most once and no write is attempted after
\* close() has been invoked.
C2_ErrorOnceCloseOnce ==
    /\ Cardinality(CloseIdx) <= 1
    /\ \A i \in CloseIdx : \A j \in WriteIdx : j < i
    /\ (pc = "task_end" /\ LastItemKind = "throw" /\ wstate # "errored") =>
          /\ Cardinality(ErrorIdx) = 1
          /\ \A i \in ErrorIdx :
                /\ ops[i].data = ErrorEvent(items[Len(items)].error)
                /\ i + 1 = Len(ops)
                /\ ops[i + 1].op = "close"

\* C3: after a write or close on the response stream has rejected (the client
\* went away), the gateway consumes no more of the generation, attempts no
\* further write or close, and no exception leaves the detached task.
C3_DisconnectIsNoOp ==
    /\ \A i \in Rejected : i = Len(ops)
    /\ Rejected # {} => pc # "iter"
    /\ ~escaped

\* C4: for GET and POST alike, a request whose message or threadId is missing
\* or empty is answered 400 {error: 'Message and threadId are required'},
\* without handleChatStream being called (no writer call, no stream handed
\* out) and with activeThreads unchanged.
C4_ValidationRejects ==
    [][(nreq' = nreq + 1 /\ Invalid(req')) =>
            /\ response' = JsonResponse(400, RequiredMessage)
            /\ pc' = "returned"
            /\ ops' = <<>>
            /\ ~handed'
            /\ activeThreads' = activeThreads]_vars

\* C5: when createOrGetConversation or graph.stream throws before the stream
\* response was returned, handleChatStream completes: it is never left
\* waiting in its catch block, and what it returns is the 500 response with
\* the error's message, no stream having been handed to the client.
C5_EarlyErrorReturns500 ==
    /\ pc \in {"api_write", "api_close"} => ENABLED (SettleWrite \/ SettleClose)
    /\ (pc = "returned" /\ caught # NoError) =>
          /\ response = JsonResponse(500, ErrorMessage(caught))
          /\ ~handed

\* the text of item k, as the gateway converts it
FragmentText(k) == contentToSend(items[k].content)
\* the chunks yielded so far whose text is not empty, in the order yielded
NonEmptyChunks ==
    SelectSeq([k \in 1..Len(items) |-> k],
              LAMBDA k : items[k].kind = "chunk" /\ FragmentText(k) # "")
TextEvents == SelectSeq(ops, LAMBDA o : o.op = "write" /\ o.src > 0
                                          /\ items[o.src].kind = "chunk")

C7_EventsInYieldOrder ==
    [n \in 1..Len(TextEvents) |-> TextEvents[n].src] = NonEmptyChunks

C7_Witness ==
    /\ Len(TextEvents) = 3
    /\ TextEvents[3].res = "ok"
    /\ TextEvents[1].data # TextEvents[2].data

\* C8: once the per-request maximum duration (maxDuration seconds) has
\* elapsed, the gateway is no longer waiting for the generation: it has
\* written an error event and closed the stream.
C8_TimeoutClosesStream ==
    (handed /\ Elapsed > maxDuration * 1000) =>
        /\ pc # "iter"
        /\ ErrorIdx # {}
        /\ CloseIdx # {}

\* C9: when the iterator yields an item that is not an AI message chunk, or
\* is exhausted, the gateway writes [DONE] and closes the stream; whenever the
\* generation has terminated and the client is still connected, the task
\* can always take its next step, and when it has ended the stream is
\* closed, by a single close that is the last call, after exactly one
\* terminal event ([DONE] or an error event) that is the last event.
C9_TerminatedStreamIsClosed ==
    (LastItemKind \in {"other", "end", "throw"} /\ wstate # "errored") =>
        /\ pc # "task_end" => ENABLED (SettleWrite \/ SettleClose
                                        \/ \E ok \in BOOLEAN : BreakReturn(ok))
        /\ pc = "task_end" =>
              /\ wstate = "closed"
              /\ Cardinality(CloseIdx) = 1
              /\ ops[Len(ops)].op = "close" /\ ops[Len(ops)].res = "ok"
              /\ Cardinality(DoneIdx \cup ErrorIdx) = 1
              /\ DoneIdx \cup ErrorIdx = {Len(ops) - 1}
              /\ ops[Len(ops) - 1].res = "ok"
              /\ LastItemKind \in {"other", "end"} => DoneIdx # {}

C9_Witness ==
    /\ pc = "task_end"
    /\ LastItemKind \in {"other", "end"}
    /\ wstate = "closed"
    /\ Len(TextEvents) >= 1

----------------------------------------------------------------------------
(* Properties of the registry (RegistrySpec) *)

CallIdx == 1..Len(calls)
Returned == {i \in CallIdx : ~calls[i].threw}

\* C10: two calls of createOrGetConversation with the same id, tracked at
\* both calls, both return that id; two calls without an id return two
\* different ids, and each id returned was recorded in activeThreads by its
\* call.
C10_SameIdReusedFreshIdsDiffer ==
    \A i \in Returned : \A j \in Returned : i < j =>
        /\ (calls[i].arg = calls[j].arg /\ calls[i].tracked /\ calls[j].tracked) =>
              (calls[i].ret = calls[i].arg /\ calls[j].ret = calls[i].arg)
        /\ (~Truthy(calls[i].arg) /\ ~Truthy(calls[j].arg)) =>
              /\ calls[i].ret # calls[j].ret
              /\ calls[i].recorded /\ calls[j].recorded

C10_Witness ==
    /\ \E i \in Returned : \E j \in Returned :
          i < j /\ calls[i].arg = calls[j].arg /\ calls[i].tracked /\ calls[j].tracked
    /\ \E i \in Returned : \E j \in Returned :
          i < j /\ ~Truthy(calls[i].arg) /\ ~Truthy(calls[j].arg)

----------------------------------------------------------------------------
(* Properties of single registry steps (RegistrySpec) *)

\* the step is one createOrGetConversation call; LastCall is its record
CallStep == Len(calls') = Len(calls) + 1
LastCall == calls'[Len(calls')]

\* the step adds exactly the entry id -> t and touches no other entry
AddsEntry(id, t) ==
    /\ DOMAIN activeThreads' = DOMAIN activeThreads \cup {id}
    /\ activeThreads'[id] = t
    /\ \A k \in DOMAIN activeThreads \ {id} : activeThreads'[k] = activeThreads[k]

\* C11 as stated: a call whose id is absent, or supplied but not tracked,
\* mints a new identifier (one that differs from the supplied id), records
\* it with the current timestamp and returns it.
C11_UntrackedMintsNewId ==
    [][(CallStep /\ ~LastCall.tracked) =>
          \E id \in minted' \ minted :
              /\ id # LastCall.arg
              /\ AddsEntry(id, now)
              /\ ~LastCall.threw => LastCall.ret = id]_vars

\* C11 amended: a call without an id mints an identifier that was never
\* used, records it with the current timestamp and returns it; a call with
\* a supplied id that is not tracked mints nothing, records the supplied id
\* with the current timestamp and returns it.
C11_UntrackedIsRecorded ==
    [][(CallStep /\ ~LastCall.tracked) =>
          IF Truthy(LastCall.arg)
          THEN /\ minted' = minted
               /\ AddsEntry(LastCall.arg, now)
               /\ ~LastCall.threw => LastCall.ret = LastCall.arg
          ELSE \E id \in minted' \ minted :
                  /\ minted' = minted \cup {id}
                  /\ id \notin DOMAIN activeThreads
                  /\ id \notin DOMAIN lastResolved
                  /\ AddsEntry(id, now)
                  /\ ~LastCall.threw => LastCall.ret = id]_vars

\* both cases have happened, each at a clock value other than the initial one
C11_Witness ==
    /\ \E i \in Returned :
          /\ ~calls[i].tracked /\ Truthy(calls[i].arg)
          /\ calls[i].arg \notin minted
          /\ calls[i].arg \in DOMAIN activeThreads
          /\ activeThreads[calls[i].arg] > 0
    /\ \E j \in Returned :
          /\ ~calls[j].tracked /\ ~Truthy(calls[j].arg)
          /\ calls[j].ret \in DOMAIN activeThreads
          /\ activeThreads[calls[j].ret] > 0

\* C12: a call with a tracked id leaves activeThreads as it was: the id
\* keeps the timestamp of its creation and no other entry is added, removed
\* or modified.
C12_TrackedCallKeepsRegistry ==
    [][(CallStep /\ LastCall.tracked) => activeThreads' = activeThreads]_vars

\* a tracked id was resolved later than its entry was created
C12_Witness ==
    \E i \in CallIdx :
        /\ calls[i].tracked
        /\ calls[i].arg \in DOMAIN activeThreads
        /\ lastResolved[calls[i].arg] > activeThreads[calls[i].arg]

\* C13 as stated: after a sweep every thread last resolved more than 24
\* hours ago is absent and every thread resolved less than 24 hours ago is
\* present, whether that resolution created the entry or reused it.
C13_SweepByLastResolution ==
    [][Sweep =>
          \A id \in DOMAIN lastResolved :
              /\ now - lastResolved[id] > RetentionMs =>
                    id \notin DOMAIN activeThreads'
              /\ now - lastResolved[id] < RetentionMs =>
                    id \in DOMAIN activeThreads']_vars

\* C13 amended: the sweep goes by the recorded timestamp, which is the time
\* the entry was created (C12: a reuse does not refresh it). After a sweep
\* every thread whose entry is more than 24 hours old is absent, also when
\* it was reused a moment ago; every thread whose entry was created less
\* than 24 hours ago is present with its timestamp; and no thread last
\* resolved more than 24 hours ago is present.
C13_SweepByRecordedTimestamp ==
    [][Sweep =>
          /\ \A id \in DOMAIN activeThreads :
                /\ now - activeThreads[id] > 24 * 60 * 60 * 1000 =>
                      id \notin DOMAIN activeThreads'
                /\ now - activeThreads[id] < 24 * 60 * 60 * 1000 =>
                      /\ id \in DOMAIN activeThreads'
                      /\ activeThreads'[id] = activeThreads[id]
          /\ \A id \in DOMAIN lastResolved :
                now - lastResolved[id] > 24 * 60 * 60 * 1000 =>
                    id \notin DOMAIN activeThreads'
          /\ DOMAIN activeThreads' \subseteq DOMAIN activeThreads]_vars

\* a sweep has evicted a thread that was reused less than 24 hours ago and
\* has kept a thread created less than 24 hours ago
C13_Witness ==
    /\ \E id \in DOMAIN lastResolved \ DOMAIN activeThreads :
          now - lastResolved[id] < RetentionMs
    /\ \E id \in DOMAIN activeThreads :
          now - activeThreads[id] < RetentionMs

----------------------------------------------------------------------------
(* Properties of conversation turns (ConversationSpec) *)

\* the step is a graph.stream call
TurnStep == nturns' = nturns + 1

\* the step changes the registry and is not the start of a turn: a sweep
\* that evicts
EvictionStep == activeThreads' # activeThreads /\ ~TurnStep

IsPrefix(a, b) == Len(a) <= Len(b) /\ SubSeq(b, 1, Len(a)) = a

\* C14: a sweep that evicts changes activeThreads only (the stored
\* checkpoints of every thread, the evicted ones included, stay as they
\* are), and a turn with a thread id resolves to that id and continues the
\* log stored under it, whether the id was tracked, never tracked or
\* evicted.
C14_SweepTouchesOnlyRegistry ==
    [][/\ EvictionStep =>
            /\ store' = store
            /\ turn' = turn
            /\ seen' = seen
            /\ <<graph, memory>>' = <<graph, memory>>
       /\ TurnStep =>
            /\ turn'.thread = turn'.requested
            /\ turn'.requested \in DOMAIN store =>
                  /\ IsPrefix(store[turn'.requested].messages,
                              store'[turn'.requested].messages)
                  /\ Len(store'[turn'.requested].messages) =
                        Len(store[turn'.requested].messages) + 1]_vars

\* a turn is running on a thread that has a stored log and was evicted
C14_Witness ==
    /\ turn.pc = "human"
    /\ ~turn.tracked
    /\ Len(store[turn.thread].messages) >= 4

SeenIdx == 1..Len(seen)

\* C15: a turn runs ycKnowledge once, with at most one index query and at
\* most one completion call, and then rests at the human node; the counts
\* are reset by the next graph.stream call only, so no second cycle runs
\* for the thread before the next request.
C15_OneCyclePerTurn ==
    /\ turn.nodeRuns <= 1
    /\ turn.queries <= 1
    /\ turn.completions <= 1
    /\ turn.pc = "human" => turn.nodeRuns = 1
    /\ (turn.pc = "idle" /\ nturns > 0) =>
          /\ turn.nodeRuns = 1
          /\ store[turn.thread].next = "human"

\* the second turn of a thread has stopped at the interrupt after one query
\* and one completion
C15_Witness ==
    /\ nturns = 2
    /\ turn.pc = "idle"
    /\ store[turn.thread].interrupted
    /\ turn.queries = 1
    /\ turn.completions = 1

\* C16: whenever the index query returns no matches (matches missing or
\* empty), invoke returns the answer NoMatchText, an empty context and the
\* history pair (query, NoMatchText), and the completion service is not
\* called.
C16_NoMatchesShortCircuit ==
    \A i \in SeenIdx :
        (seen[i].invoked /\ seen[i].env.search \in {"missing", "empty"}) =>
            /\ ~seen[i].result.threw
            /\ seen[i].result.answer = "No matching results found in the database."
            /\ seen[i].result.context = ""
            /\ seen[i].result.chat_history =
                  <<HumanMessage(seen[i].input),
                    AIMessage("No matching results found in the database.")>>
            /\ seen[i].env.llm = "none"

\* C17: if the embedding, the index query, the formatting of the results or
\* the completion call throws inside invoke, invoke does not throw: it
\* returns the apology as answer, an empty context and the history pair
\* (query, apology).
C17_ThrowsBecomeApology ==
    \A i \in SeenIdx :
        (seen[i].invoked /\ \E st \in Stages : seen[i].env[st] = "throws") =>
            /\ ~seen[i].result.threw
            /\ seen[i].result.answer = ErrorMsg
            /\ seen[i].result.context = ""
            /\ seen[i].result.chat_history =
                  <<HumanMessage(seen[i].input), AIMessage(ErrorMsg)>>

\* one invocation in which the completion call threw, one in which the
\* formatting of the matches threw
C17_Witness ==
    /\ \E i \in SeenIdx : seen[i].invoked /\ seen[i].env.llm = "throws"
    /\ \E i \in SeenIdx : seen[i].invoked /\ seen[i].env.format = "throws"

\* C18: after a first turn 'hi' and a second turn 'ok' on one thread, the
\* chat history the responder is given in the second turn is exactly the
\* pair of the first turn: the user message 'hi' and the assistant answer
\* to it.
C18_SecondTurnSeesOnePair ==
    \A i \in SeenIdx : \A j \in SeenIdx :
        (/\ seen[i].thread = seen[j].thread
         /\ seen[i].n = 1 /\ seen[i].input = "hi" /\ seen[i].invoked
         /\ seen[j].n = 2 /\ seen[j].input = "ok" /\ seen[j].invoked) =>
            seen[j].history =
                <<HumanMessage("hi"), AIMessage(seen[i].result.answer)>>

\* the runs of ycKnowledge on the thread of run j before run j, oldest first
EarlierRuns(j) ==
    SelectSeq([i \in 1..(j - 1) |-> i], LAMBDA i : seen[i].thread = seen[j].thread)

\* the answer the node of run i stored for the user
AnswerShown(i) ==
    IF seen[i].invoked /\ ~seen[i].result.threw THEN seen[i].result.answer
    ELSE NodeApology

\* 'Human: <text>' and 'Assistant: <text>' for each of the runs, in order
RECURSIVE ExpectedLines(_)
ExpectedLines(runs) ==
    IF runs = <<>> THEN <<>>
    ELSE ExpectedLines(SubSeq(runs, 1, Len(runs) - 1))
            \o <<"Human: " \o seen[runs[Len(runs)]].input,
                 "Assistant: " \o AnswerShown(runs[Len(runs)])>>

\* C25: in every turn after the first of a thread that reaches the
\* completion call, the chat history placed in the prompt begins with the
\* earlier turns in order, each as the line 'Human: <user message>' followed
\* by the line 'Assistant: <answer>'.
C25_HistoryRenderedByRole ==
    \A j \in SeenIdx :
        (seen[j].n > 1 /\ seen[j].invoked /\ seen[j].env.llm # "none") =>
            IsPrefix(ExpectedLines(EarlierRuns(j)), RenderHistory(seen[j].history))

\* the invocation reached the completion call and nothing threw
Succeeded(i) ==
    seen[i].invoked /\ seen[i].env.llm \in {"text", "blocks"}
        /\ ThrowingStages(seen[i].env) = {}

\* C26: on every outcome of VectorSearchRunnable.invoke (no matches,
\* successful completion, caught error) the returned history update is the
\* two-element sequence (user message = the query, assistant message = the
\* returned answer), and on success the answer is the text of the completion,
\* verbatim, from a single completion call.
C26_PairOfQueryAndAnswer ==
    \A i \in SeenIdx :
        seen[i].invoked =>
            /\ ~seen[i].result.threw
            /\ seen[i].result.chat_history =
                  <<HumanMessage(seen[i].input), AIMessage(seen[i].result.answer)>>
            /\ Succeeded(i) =>
                  /\ seen[i].result.answer = CompletionText(seen[i].input)
                  /\ CompletionCalls(seen[i].env) = 1

\* C26 (amended): on every outcome of VectorSearchRunnable.invoke the
\* returned history update is the pair (user message = the query, assistant
\* message = the returned answer); on success the answer comes from a single
\* completion call and is its content verbatim when that content is plain
\* text, and the JSON serialisation of the content when it is structured.
C26_PairOfQueryAndSerialisedAnswer ==
    \A i \in SeenIdx :
        seen[i].invoked =>
            /\ ~seen[i].result.threw
            /\ seen[i].result.chat_history =
                  <<HumanMessage(seen[i].input), AIMessage(seen[i].result.answer)>>
            /\ Succeeded(i) =>
                  /\ seen[i].env.llm = "text" =>
                        seen[i].result.answer = CompletionText(seen[i].input)
                  /\ seen[i].env.llm = "blocks" =>
                        seen[i].result.answer = CompletionBlocks(seen[i].input)
                  /\ CompletionCalls(seen[i].env) = 1

\* a completion with structured content next to one with plain text
C26_Witness ==
    /\ \E i \in SeenIdx : Succeeded(i) /\ seen[i].env.llm = "blocks"
    /\ \E i \in SeenIdx : Succeeded(i) /\ seen[i].env.llm = "text"

----------------------------------------------------------------------------
(* Properties of loadMessages (ReconstructSpec) *)

MsgIdx == 1..Len(messages)

\* the steps of the rows that parse to a message, in storage order
StoredSteps ==
    LET withMsg == SelectSeq(checkpoints,
                             LAMBDA r : parseCheckpointMetadata(r.metadata) # Null)
    IN  [i \in 1..Len(withMsg) |-> withMsg[i].metadata.step]

\* C19: whatever the storage order of the checkpoints, the messages of
\* loadMessages are in ascending order of the step of the checkpoint each
\* one came from.
C19_MessagesInStepOrder ==
    loaded = "yes" =>
        /\ Len(sourceSteps) = Len(messages)
        /\ \A i \in MsgIdx : \A j \in MsgIdx :
              i < j => sourceSteps[i] <= sourceSteps[j]

\* the rows were stored out of step order and two of them became messages
C19_Witness ==
    /\ loaded = "yes"
    /\ Len(messages) >= 2
    /\ \E i \in 1..Len(StoredSteps) : \E j \in 1..Len(StoredSteps) :
          i < j /\ StoredSteps[i] > StoredSteps[j]
    /\ sourceSteps[1] < sourceSteps[Len(sourceSteps)]

\* C20: no two adjacent messages of the reconstructed list have the same
\* role and the same content, also when three or more equal messages follow
\* one another in the input.
C20_NoAdjacentRepeats ==
    loaded = "yes" =>
        \A i \in MsgIdx :
            i < Len(messages) =>
                ~(messages[i].role = messages[i + 1].role
                  /\ messages[i].content = messages[i + 1].content)

\* three rows with equal messages were reduced to one message
C20_Witness ==
    /\ loaded = "yes"
    /\ Len(checkpoints) = 3
    /\ \A i \in 1..3 :
          /\ parseCheckpointMetadata(checkpoints[i].metadata) # Null
          /\ parseCheckpointMetadata(checkpoints[i].metadata) =
                parseCheckpointMetadata(checkpoints[1].metadata)
    /\ Len(messages) = 1

----------------------------------------------------------------------------
(* Properties of parseSummary (ProjectSpec) *)

SummaryLabels ==
    {<<"discussions", DiscussionsLabel>>, <<"lastTask", LastTaskLabel>>,
     <<"context", ContextLabel>>}

\* the sections of the text that start with the label
SectionsWith(text, label) ==
    SelectSeq(Split(text, <<"\n", "\n">>), LAMBDA sec : StartsWith(sec, label))

\* a bullet line without its marker '-' and the blanks around it
WithoutMarker(line) == TrimStart(SubSeq(Trim(line), 2, Len(Trim(line))))

\* the bullet lines of a section, in order, markers stripped
BulletLinesOf(section, label) ==
    LET body == Split(Trim(SubSeq(section, Len(label) + 1, Len(section))), <<"\n">>)
        bullets == SelectSeq(body, LAMBDA l : Trim(l) # <<>> /\ Trim(l)[1] = "-")
    IN  [i \in 1..Len(bullets) |-> WithoutMarker(bullets[i])]

ExampleSummary ==
    DiscussionsLabel \o <<"\n", "-", " ", "A", "\n", "-", " ", "B">>

\* C21: for each label parseSummary returns the bullet lines (the lines that
\* start with '-', without the marker, in order) of the section starting
\* with that label, and an empty list when no section starts with it; the
\* example text gives discussions A, B and two empty lists.
C21_ProjectsBulletLines ==
    projected =>
        /\ \A fl \in SummaryLabels :
              IF SectionsWith(summary, fl[2]) = <<>>
              THEN formatted[fl[1]] = <<>>
              ELSE \E i \in 1..Len(SectionsWith(summary, fl[2])) :
                      formatted[fl[1]] =
                          BulletLinesOf(SectionsWith(summary, fl[2])[i], fl[2])
        /\ summary = ExampleSummary =>
              formatted = [discussions |-> <<<<"A">>, <<"B">>>>,
                           lastTask |-> <<>>, context |-> <<>>]

----------------------------------------------------------------------------
(* Properties of concurrent calls (InterleavedSpec) *)

\* a step of some createOrGetConversation call
RequestStep == callers' # callers

\* the calls that start in this step
Entering == {c \in Callers : callers[c].pc = "idle" /\ callers'[c].pc # "idle"}

\* the id the call c starts with was in the registry before this step
WasTracked(c) ==
    Truthy(callers'[c].arg) /\ callers'[c].arg \in DOMAIN activeThreads

InFlight(c) == callers[c].pc \notin {"idle", "done"}

\* C22: under any interleaving of concurrent createOrGetConversation calls
\* and the sweep, testing for a tracked id and recording an id are one
\* atomic step: no step of a request removes or changes an entry already
\* recorded, a call with an untracked id adds exactly one entry stamped with
\* the current time, a call with a tracked id adds none, only the step that
\* starts a call touches the registry, and a call without an id records an
\* id no other call holds.
C22_TestAndRecordAtomic ==
    [][RequestStep =>
        /\ \A id \in DOMAIN activeThreads :
              id \in DOMAIN activeThreads' /\ activeThreads'[id] = activeThreads[id]
        /\ Entering = {} => activeThreads' = activeThreads
        /\ \A c \in Entering :
              /\ WasTracked(c) =>
                    /\ activeThreads' = activeThreads
                    /\ callers'[c].threadId = callers'[c].arg
              /\ ~WasTracked(c) =>
                    /\ callers'[c].threadId \notin DOMAIN activeThreads
                    /\ DOMAIN activeThreads' =
                          DOMAIN activeThreads \cup {callers'[c].threadId}
                    /\ activeThreads'[callers'[c].threadId] = now
              /\ ~Truthy(callers'[c].arg) =>
                    \A d \in Callers \ {c} :
                        callers[d].threadId # callers'[c].threadId]_vars

\* two calls without an id are in flight at once, each with its own entry,
\* after the clock advanced and a tracked id was resolved again
C22_Witness ==
    \E c, d \in Callers :
        /\ c # d
        /\ InFlight(c) /\ InFlight(d)
        /\ ~Truthy(callers[c].arg) /\ ~Truthy(callers[d].arg)
        /\ callers[c].threadId # callers[d].threadId
        /\ {callers[c].threadId, callers[d].threadId} \subseteq DOMAIN activeThreads

\* C27: the compiled graph and its checkpoint saver are created at most
\* once per process: as long as no saver setup has failed,
\* createSafePostgresSaver and createWorkflow's compile have each run at
\* most once, and all calls that returned received the same graph.
C27_CreatedAtMostOnce ==
    (\A c \in Callers : ~callers[c].threw) =>
        /\ nSavers <= 1
        /\ nWorkflows <= 1
        /\ \A c, d \in Callers :
              callers[c].pc = "done" /\ callers[d].pc = "done" =>
                  callers[c].got = callers[d].got

\* the messages of the sorted checkpoints, before the duplicate filter
ParsedMessages(rows) ==
    LET sorted == SortRows(rows)
        parsed == [i \in 1..Len(sorted) |-> parseCheckpointMetadata(sorted[i].metadata)]
    IN  SelectSeq(parsed, LAMBDA m : m # Null)

\* list without every message that equals the last message kept before it
RECURSIVE DropRepeats(_)
DropRepeats(list) ==
    IF list = <<>> THEN <<>>
    ELSE LET out == DropRepeats(SubSeq(list, 1, Len(list) - 1))
             last == list[Len(list)]
         IN  IF out # <<>> /\ SameMessage(out[Len(out)], last)
             THEN out ELSE Append(out, last)

\* C23: the duplicate filter of loadMessages, which compares each message
\* with its predecessor in the unfiltered list, gives the list obtained by
\* dropping a message exactly when it equals (role and content) its
\* immediate predecessor in the output; a message equal to a non-adjacent
\* earlier message is kept.
C23_FilterDropsAdjacentRepeats ==
    loaded = "yes" =>
        /\ messages = DropRepeats(ParsedMessages(checkpoints))
        /\ Len(messages) =
              Cardinality({i \in 1..Len(ParsedMessages(checkpoints)) :
                              \/ i = 1
                              \/ ~SameMessage(ParsedMessages(checkpoints)[i - 1],
                                              ParsedMessages(checkpoints)[i])})

\* a run of three equal messages is reduced to one: the second and third
\* have different predecessors in the unfiltered list and in the output
C23_Witness ==
    /\ loaded = "yes"
    /\ Len(ParsedMessages(checkpoints)) = 3
    /\ Len(messages) = 1

\* the message the claim assigns to one checkpoint, Null for none
ExpectedMessage(md) ==
    IF md.writes = NullWrites \/ md.writes = <<>> THEN Null
    ELSE IF md.writes[1].messages = <<>> THEN Null
    ELSE IF md.writes[1].messages[1] = "" THEN Null
    ELSE IF md.writes[1].sender = "user" THEN
            [role |-> "user", content |-> md.writes[1].messages[1]]
    ELSE IF md.source = "input" /\ md.writes[1].key = "__start__" THEN
            [role |-> "user", content |-> md.writes[1].messages[1]]
    ELSE [role |-> "assistant", content |-> md.writes[1].messages[1]]

\* C24: for every checkpoint, parseCheckpointMetadata looks only at the
\* first key of writes and its first message: no message if writes is absent
\* or empty, the entry has no first message or that message has no text
\* content; otherwise one message with that content, with role user if the
\* sender is 'user' or (source is 'input' and the key is '__start__'), and
\* assistant in every other case.
C24_OneMessagePerCheckpoint ==
    loaded = "yes" =>
        /\ {messages[i] : i \in 1..Len(messages)} =
              {ExpectedMessage(checkpoints[i].metadata) : i \in 1..Len(checkpoints)}
                  \ {Null}
        /\ Len(checkpoints) = 1 =>
              messages = IF ExpectedMessage(checkpoints[1].metadata) = Null THEN <<>>
                         ELSE <<ExpectedMessage(checkpoints[1].metadata)>>

\* a checkpoint with two keys gives the first message of its first key, an
\* input checkpoint keyed '__start__' with no sender gives a user message,
\* and a checkpoint with empty writes gives nothing
C24_Witness ==
    /\ loaded = "yes"
    /\ Len(checkpoints) = 3
    /\ \E i, j, k \in 1..3 :
          /\ Len(checkpoints[i].metadata.writes) = 2
          /\ checkpoints[j].metadata.source = "input"
          /\ checkpoints[j].metadata.writes # NullWrites
          /\ checkpoints[j].metadata.writes[1].sender = ""
          /\ checkpoints[j].metadata.writes[1].key = "__start__"
          /\ checkpoints[k].metadata.writes = <<>>
    /\ Len(messages) = 2
    /\ {messages[1].role, messages[2].role} = {"user", "assistant"}

----------------------------------------------------------------------------
(* Properties of the client (ClientSpec) *)

\* a listener of the EventSource of submit k runs in this step
Handled(k) ==
    /\ k \in StreamIdx
    /\ Len(streams') = Len(streams)
    /\ Len(streams'[k].inbox) < Len(streams[k].inbox)

\* the event that listener is given
Delivered(k) == Head(streams[k].inbox)

\* C28: when a second handleSubmit starts while an earlier response is
\* still streaming, the fragments and the error replacement of each stream
\* change only the assistant message created for that stream's own submit:
\* every other message, user or assistant, stays as it is.
C28_StreamWritesOwnMessage ==
    [][\A k \in StreamIdx :
          Handled(k) =>
              /\ Len(messages') = Len(messages)
              /\ \A i \in 1..Len(messages) :
                    i # streams[k].slot => messages'[i] = messages[i]]_vars

\* C29: for a turn that completes normally (here the only submit of the
\* run), the assistant text shown when [DONE] has arrived is the
\* concatenation, in generation order, of the non-empty fragments the
\* gateway received, each once, after cleanMessage (leading 'YC Advisor:'
\* prefix removed, trimmed).
C29_ShownTextIsAllFragments ==
    \A k \in StreamIdx :
        (Len(streams) = 1 /\ streams[k].done) =>
            messages[streams[k].slot] =
                AssistantMessage(cleanMessage(streams[k].received))

\* C30: once [DONE] or an error is delivered to the EventSource of a
\* submit, that EventSource is closed and isLoading is false, and on error
\* the last message is replaced by the fixed apology; a stream the server
\* ended, with [DONE] or with an error event only, has its EventSource
\* closed once its events are delivered, and isLoading is false when that
\* holds for every stream.
C30_StreamEndReleasesInput ==
    /\ [][\A k \in StreamIdx :
            (Handled(k) /\ (Delivered(k).kind = "error" \/ Delivered(k).data = DoneData)) =>
                /\ streams'[k].es = "closed"
                /\ isLoading' = FALSE
                /\ Delivered(k).kind = "error" =>
                      /\ Len(messages') = Len(messages)
                      /\ messages'[Len(messages')] = AssistantMessage(ClientApology)
                      /\ \A i \in 1..(Len(messages) - 1) : messages'[i] = messages[i]]_vars
    /\ [](\A k \in StreamIdx :
            (streams[k].server # "streaming" /\ streams[k].inbox = <<>>) =>
                streams[k].es = "closed")
    /\ []((Len(streams) > 0 /\ \A k \in StreamIdx : streams[k].es = "closed") =>
            ~isLoading)

\* a stream the server ended with an error event and no [DONE] was delivered
\* in full: its text was shown, then replaced by the apology
C30_Witness ==
    \E k \in StreamIdx :
        /\ streams[k].server = "failed"
        /\ streams[k].assistantMessage = <<"a", "Error: boom">>
        /\ streams[k].inbox = <<>>
        /\ streams[k].es = "closed"
        /\ ~isLoading
        /\ messages[Len(messages)] = AssistantMessage(ClientApology)

====
